---- MODULE Spec2Model ----
(***************************************************************************)
(* abi-to-sol: generateSolidity turns a contract ABI into the source text  *)
(* of a Solidity interface.  The model follows lib/solidity.ts             *)
(* (src/unnamed/part_000): the SolidityGenerator visitor, its constructor  *)
(* and the optional prettier pass.                                         *)
(*                                                                         *)
(* A JavaScript string is modelled as a sequence of tokens (words and      *)
(* punctuation), so that join, replace, startsWith and includes are        *)
(* computed on the text and not assumed.  An ABI parameter is a record     *)
(* whose optional fields (components, indexed, internalType) are present   *)
(* or absent in its DOMAIN, as they are in the JSON.                       *)
(***************************************************************************)
EXTENDS Naturals, Sequences, FiniteSets, TLC

VARIABLES abi, options, declarations, identifiers, generated, result,
          formatCalls, formatThrew, pc

vars == <<abi, options, declarations, identifiers, generated, result,
          formatCalls, formatThrew, pc>>

\* Longest parameter list of the single-entry ABIs.
MaxParams == 2
\* Longest ABI built from the mixed entries.
MaxEntries == 2
\* Longest declaration table handed directly to the generator.
MaxDecls == 2

---------------------------------------------------------------------------
(* JavaScript string and array primitives, on token sequences *)

RECURSIVE join(_, _)
\* Array.prototype.join: the parts with sep between them.
join(parts, sep) ==
  IF Len(parts) = 0 THEN <<>>
  ELSE IF Len(parts) = 1 THEN parts[1]
  ELSE parts[1] \o sep \o join(Tail(parts), sep)

\* String.prototype.replace with a string pattern: the first occurrence only.
\* (No identifier of the model holds a "$", so the replacement is literal.)
replace(s, pattern, replacement) ==
  IF \E i \in 1..Len(s) : s[i] = pattern
  THEN LET i == CHOOSE k \in 1..Len(s) :
                  s[k] = pattern /\ \A j \in 1..(k - 1) : s[j] # pattern
       IN  [s EXCEPT ![i] = replacement]
  ELSE s

startsWith(s, token) == Len(s) > 0 /\ s[1] = token

includes(s, token) == \E i \in 1..Len(s) : s[i] = token

---------------------------------------------------------------------------
(* The ABIs the generator is run on *)

Param(name, type) == [name |-> name, type |-> type]

Tuple(name, suffix, components) ==
  [name |-> name, type |-> <<"tuple">> \o suffix, components |-> components]

NamedTuple(name, suffix, components, internalType) ==
  [name |-> name, type |-> <<"tuple">> \o suffix, components |-> components,
   internalType |-> internalType]

EventParam(p, indexed) ==
  IF "components" \in DOMAIN p
  THEN [name |-> p.name, type |-> p.type, components |-> p.components,
        indexed |-> indexed]
  ELSE [name |-> p.name, type |-> p.type, indexed |-> indexed]

Dynamic == <<"[", "]">>
Fixed2  == <<"[", "2", "]">>

\* (uint256,address)
CompsA  == <<Param("x", <<"uint256">>), Param("y", <<"address">>)>>
\* the same shape under other field names
CompsA2 == <<Param("p", <<"uint256">>), Param("q", <<"address">>)>>
\* the field names of CompsA, the component types in the other order
CompsB  == <<Param("x", <<"address">>), Param("y", <<"uint256">>)>>
\* ((uint256,address),bool): a nested tuple
CompsN  == <<Tuple("inner", <<>>, CompsA), Param("z", <<"bool">>)>>

FunctionParams ==
  { Param("a", <<"uint256">>), Param("o", <<"address">>),
    Param("h", <<"bytes32">>), Param("d", <<"bytes">>),
    Param("s", <<"string">>), Param("", <<"bool">>),
    Param("xs", <<"uint256">> \o Dynamic), Param("pr", <<"address">> \o Fixed2),
    Tuple("t", <<>>, CompsA), Tuple("ns", Dynamic, CompsN) }

EventParams ==
  { EventParam(p, i) :
      p \in { Param("a", <<"uint256">>), Param("d", <<"bytes">>),
              Param("s", <<"string">>), Param("xs", <<"uint256">> \o Dynamic),
              Tuple("t", <<>>, CompsA) },
      i \in BOOLEAN }
  \cup { Tuple("ns", Dynamic, CompsN) }

\* The sequences over S of length at most n.
SeqUpTo(S, n) == UNION { [1..k -> S] : k \in 0..n }

StateMutabilities == {"pure", "view", "nonpayable", "payable"}

FunctionEntry(name, inputs, outputs, stateMutability) ==
  [type |-> "function", name |-> name, inputs |-> inputs, outputs |-> outputs,
   stateMutability |-> stateMutability]

EventEntry(name, inputs, anonymous) ==
  [type |-> "event", name |-> name, inputs |-> inputs, anonymous |-> anonymous]

ConstructorEntry(inputs) ==
  [type |-> "constructor", inputs |-> inputs, stateMutability |-> "nonpayable"]

FallbackEntry(stateMutability) ==
  [type |-> "fallback", stateMutability |-> stateMutability]

ReceiveEntry == [type |-> "receive", stateMutability |-> "payable"]

\* One function whose inputs, or whose outputs, range over FunctionParams.
FunctionAbis ==
  { <<FunctionEntry("f", ps, <<>>, m)>> :
      ps \in SeqUpTo(FunctionParams, MaxParams), m \in StateMutabilities }
  \cup
  { <<FunctionEntry("f", <<>>, ps, m)>> :
      ps \in SeqUpTo(FunctionParams, MaxParams), m \in StateMutabilities }

\* One event whose inputs range over EventParams.
EventAbis ==
  { <<EventEntry("E", ps, an)>> :
      ps \in SeqUpTo(EventParams, MaxParams), an \in BOOLEAN }

\* Entries of every kind, sharing and not sharing tuple shapes and names.
MixedEntries ==
  { ConstructorEntry(<<Tuple("init", <<>>, CompsB)>>),
    FallbackEntry("payable"), FallbackEntry("nonpayable"), ReceiveEntry,
    FunctionEntry("f", <<Tuple("t", <<>>, CompsA)>>, <<>>, "nonpayable"),
    FunctionEntry("g", <<NamedTuple("u", <<>>, CompsA2, "Foo")>>,
                  <<Param("", <<"uint256">>)>>, "view"),
    FunctionEntry("h", <<Tuple("v", <<>>, CompsB)>>, <<>>, "nonpayable"),
    FunctionEntry("k", <<NamedTuple("w", Dynamic, CompsB, "S_0")>>,
                  <<Tuple("r", <<>>, CompsB)>>, "pure"),
    FunctionEntry("m", <<NamedTuple("b", <<>>, CompsB, "Foo")>>, <<>>, "payable"),
    FunctionEntry("n", <<Param("a", <<"uint256">>), Tuple("ns", Dynamic, CompsN)>>,
                  <<Tuple("t", Fixed2, CompsA2)>>, "view"),
    EventEntry("E", <<EventParam(Tuple("t", <<>>, CompsA), TRUE),
                      EventParam(Param("a", <<"uint256">>), FALSE)>>, FALSE) }

MixedAbis == SeqUpTo(MixedEntries, MaxEntries)

Abis == FunctionAbis \cup EventAbis \cup MixedAbis

---------------------------------------------------------------------------
(* Structural signatures (Codec.AbiData.Utils.abiTupleSignature) *)

RECURSIVE abiTupleSignature(_)
\* "(" + the component type signatures joined by "," + ")"; a tuple component
\* contributes the signature of its own components followed by its array
\* suffix; names and every other field are left out.
abiTupleSignature(components) ==
  <<"(">>
  \o join([i \in 1..Len(components) |->
             IF startsWith(components[i].type, "tuple")
             THEN abiTupleSignature(components[i].components)
                  \o Tail(components[i].type)
             ELSE components[i].type],
          <<",">>)
  \o <<")">>

---------------------------------------------------------------------------
(* The declaration collector (lib/declarations.ts) *)

\* A field of a declaration: a tuple field carries the signature of its shape.
Component(parameter) ==
  IF "components" \in DOMAIN parameter
  THEN [name |-> parameter.name, type |-> parameter.type,
        signature |-> abiTupleSignature(parameter.components)]
  ELSE [name |-> parameter.name, type |-> parameter.type]

\* The declaration of a tuple parameter; its identifier is the name inferred
\* from the parameter's internalType, when it has one.
Declaration(parameter) ==
  IF "internalType" \in DOMAIN parameter
  THEN [identifier |-> parameter.internalType,
        components |-> [i \in 1..Len(parameter.components) |->
                          Component(parameter.components[i])]]
  ELSE [components |-> [i \in 1..Len(parameter.components) |->
                          Component(parameter.components[i])]]

HasSignature(table, signature) ==
  \E k \in 1..Len(table) : table[k].signature = signature

RECURSIVE collectParameters(_, _)
\* The table after a left-to-right, depth-first walk of a parameter list: a
\* tuple's components are walked before the tuple itself is entered, and a
\* signature already in the table is left as it is.
collectParameters(table, parameters) ==
  IF parameters = <<>> THEN table
  ELSE LET parameter == Head(parameters)
           inner == collectParameters(table, parameter.components)
           signature == abiTupleSignature(parameter.components)
           after ==
             IF ~ ( startsWith(parameter.type, "tuple")
                    /\ "components" \in DOMAIN parameter )
             THEN table
             ELSE IF HasSignature(inner, signature) THEN inner
             ELSE Append(inner, [signature |-> signature,
                                 declaration |-> Declaration(parameter)])
       IN  collectParameters(after, Tail(parameters))

\* The parameter lists of an entry: inputs before outputs.
EntryParameters(entry) ==
  (IF "inputs" \in DOMAIN entry THEN entry.inputs ELSE <<>>)
  \o (IF "outputs" \in DOMAIN entry THEN entry.outputs ELSE <<>>)

RECURSIVE collectEntries(_, _)
collectEntries(table, entries) ==
  IF entries = <<>> THEN table
  ELSE collectEntries(collectParameters(table, EntryParameters(Head(entries))),
                      Tail(entries))

collectDeclarations(nodes) == collectEntries(<<>>, nodes)

---------------------------------------------------------------------------
(* lib/defaults.ts and the options of one run *)

defaultName == "MyInterface"
defaultLicense == "UNLICENSED"
defaultSolidityVersion == ">=0.5.0 <0.8.0"

Options ==
  { [prettier |-> FALSE], [prettier |-> TRUE],
    [prettier |-> FALSE, name |-> "IToken", license |-> "MIT",
     solidityVersion |-> "^0.7.0"] }

\* A name as a string: the empty name is the empty string.
str(name) == IF name = "" THEN <<>> ELSE <<name>>

---------------------------------------------------------------------------
(* SolidityGenerator *)

RECURSIVE assignIdentifiers(_, _, _)
\* The constructor's loop over Object.entries(declarations): an entry keeps its
\* own identifier, any other gets S_<index> and advances the index.
assignIdentifiers(entries, ids, index) ==
  IF entries = <<>> THEN ids
  ELSE LET signature == Head(entries).signature
           declaration == Head(entries).declaration
       IN  IF "identifier" \in DOMAIN declaration /\ declaration.identifier # ""
           THEN assignIdentifiers(Tail(entries),
                                  (signature :> declaration.identifier) @@ ids,
                                  index)
           ELSE assignIdentifiers(Tail(entries),
                                  (signature :> ("S_" \o ToString(index))) @@ ids,
                                  index + 1)

\* this.name, this.license, this.solidityVersion: the option or its default.
thisName == IF "name" \in DOMAIN options THEN options.name ELSE defaultName

thisLicense ==
  IF "license" \in DOMAIN options THEN options.license ELSE defaultLicense

thisSolidityVersion ==
  IF "solidityVersion" \in DOMAIN options THEN options.solidityVersion
  ELSE defaultSolidityVersion

\* this.identifiers[signature] inside a template or as a replacement string: a
\* missing key reads as undefined, which is written "undefined".
identifierOf(signature) ==
  IF signature \in DOMAIN identifiers THEN identifiers[signature]
  ELSE "undefined"

\* generateType substituting the identifier only where the type is "tuple"
\* itself, and leaving a tuple array as it is.
generateType_scalarOnly(parameter) ==
  IF "components" \notin DOMAIN parameter \/ parameter.type # <<"tuple">>
  THEN parameter.type
  ELSE replace(parameter.type, "tuple",
               identifierOf(abiTupleSignature(parameter.components)))

generateType(parameter) ==
  IF "components" \notin DOMAIN parameter THEN parameter.type
  ELSE replace(parameter.type, "tuple",
               identifierOf(abiTupleSignature(parameter.components)))

\* The function context testing type.startsWith("bytes") where the code tests
\* type === "bytes".
functionParameterModifiers_bytesPrefix(parameter) ==
  IF \/ startsWith(parameter.type, "tuple")
     \/ includes(parameter.type, "[")
     \/ parameter.type[1] \in {"bytes", "bytes32"}
     \/ parameter.type = <<"string">>
  THEN << <<"memory">> >>
  ELSE <<>>

\* The parameterModifiers of the context visitFunctionEntry passes, for inputs
\* and for outputs alike.
functionParameterModifiers(parameter) ==
  IF \/ startsWith(parameter.type, "tuple")
     \/ includes(parameter.type, "[")
     \/ parameter.type = <<"bytes">>
     \/ parameter.type = <<"string">>
  THEN << <<"memory">> >>
  ELSE <<>>

\* The event context giving the function context's modifiers as well.
eventParameterModifiers_location(parameter) ==
  functionParameterModifiers(parameter)
  \o (IF "indexed" \in DOMAIN parameter /\ parameter.indexed
      THEN << <<"indexed">> >>
      ELSE <<>>)

\* The parameterModifiers of the context visitEventEntry passes.
eventParameterModifiers(parameter) ==
  IF "indexed" \in DOMAIN parameter /\ parameter.indexed
  THEN << <<"indexed">> >>
  ELSE <<>>

parameterModifiers(context, parameter) ==
  IF context = "function" THEN functionParameterModifiers(parameter)
  ELSE eventParameterModifiers(parameter)

visitParameter(parameter, context) ==
  join(<<generateType(parameter)>>
         \o parameterModifiers(context, parameter)
         \o <<str(parameter.name)>>,
       <<" ">>)

\* generateStateMutability without the test for "nonpayable".
generateStateMutability_verbatim(entry) ==
  IF "stateMutability" \in DOMAIN entry /\ entry.stateMutability # ""
  THEN <<entry.stateMutability>>
  ELSE <<>>

generateStateMutability(entry) ==
  IF /\ "stateMutability" \in DOMAIN entry
     /\ entry.stateMutability # ""
     /\ entry.stateMutability # "nonpayable"
  THEN <<entry.stateMutability>>
  ELSE <<>>

\* The inputs are an array inside the joined array: it is written with its
\* elements separated by "," alone.
visitFunctionEntry(entry) ==
  join(<< <<"function", " ", entry.name, "(">>,
          join([i \in 1..Len(entry.inputs) |->
                  visitParameter(entry.inputs[i], "function")], <<",">>),
          <<")", " ", "external">>,
          generateStateMutability(entry),
          IF "outputs" \in DOMAIN entry /\ Len(entry.outputs) > 0
          THEN <<"returns", " ", "(">>
               \o join([i \in 1..Len(entry.outputs) |->
                          visitParameter(entry.outputs[i], "function")],
                       <<",", " ">>)
               \o <<")">>
          ELSE <<>>,
          <<";">> >>,
       <<" ">>)

\* visitConstructorEntry writing the constructor out.
visitConstructorEntry_rendered(entry) ==
  <<"constructor", " ", "(", ")", " ", "external", ";">>

\* interfaces don't have constructors
visitConstructorEntry(entry) == <<>>

visitFallbackEntry(entry) ==
  <<"fallback", " ", "(", ")", " ", "external", " ">>
  \o (IF entry.stateMutability = "payable" THEN <<"payable">> ELSE <<>>)
  \o <<";">>

visitReceiveEntry == <<"receive", " ", "(", ")", " ", "external", " ", "payable", ";">>

visitEventEntry(entry) ==
  join(<< <<"event", " ", entry.name, "(">>,
          join([i \in 1..Len(entry.inputs) |->
                  visitParameter(entry.inputs[i], "event")], <<",">>),
          <<")">>,
          (IF entry.anonymous THEN <<"anonymous">> ELSE <<>>) \o <<";">> >>,
       <<" ">>)

\* The handler registered for the node's kind (lib/visitor.ts).
dispatch(node) ==
  CASE node.type = "function"    -> visitFunctionEntry(node)
    [] node.type = "constructor" -> visitConstructorEntry(node)
    [] node.type = "fallback"    -> visitFallbackEntry(node)
    [] node.type = "receive"     -> visitReceiveEntry
    [] node.type = "event"       -> visitEventEntry(node)

generateHeader ==
  join(<< <<"//", " ", "SPDX-License-Identifier:", " ", thisLicense>>,
          <<"//", " ",
            "!! THIS FILE WAS AUTOGENERATED BY abi-to-sol. SEE BELOW FOR SOURCE. !!">>,
          <<"pragma", " ", "solidity", " ", thisSolidityVersion, ";">>,
          <<"pragma", " ", "experimental", " ", "ABIEncoderV2", ";">> >>,
       <<"\n">>)

\* generateComponents writing every field's type as it stands.
generateComponents_verbatim(declaration) ==
  join([i \in 1..Len(declaration.components) |->
          declaration.components[i].type \o <<" ">>
          \o str(declaration.components[i].name) \o <<";">>],
       <<"\n">>)

generateComponents(declaration) ==
  join([i \in 1..Len(declaration.components) |->
          LET component == declaration.components[i]
          IN  IF "signature" \notin DOMAIN component \/ component.signature = <<>>
              THEN component.type \o <<" ">> \o str(component.name) \o <<";">>
              ELSE replace(component.type, "tuple",
                           identifierOf(component.signature))
                   \o <<" ">> \o str(component.name) \o <<";">>],
       <<"\n">>)

generateDeclarations ==
  join([k \in 1..Len(declarations) |->
          <<"struct", " ", identifierOf(declarations[k].signature), " ", "{", " ">>
          \o generateComponents(declarations[k].declaration)
          \o <<" ", "}">>],
       <<"\n", "\n">>)

generateInterface(nodes) ==
  join(<< <<"interface", " ", thisName, " ", "{">> >>
         \o [i \in 1..Len(nodes) |-> dispatch(nodes[i])]
         \o << <<"}">> >>,
       <<"\n">>)

RECURSIVE stringifyParameters(_)
\* JSON.stringify of a parameter list.
stringifyParameters(parameters) ==
  <<"[">>
  \o join([i \in 1..Len(parameters) |->
             LET p == parameters[i]
             IN  <<"{", "\"name\"", ":", "\"">> \o str(p.name) \o <<"\"", ",",
                   "\"type\"", ":", "\"">> \o p.type \o <<"\"">>
                 \o (IF "components" \in DOMAIN p
                     THEN <<",", "\"components\"", ":">>
                          \o stringifyParameters(p.components)
                     ELSE <<>>)
                 \o (IF "indexed" \in DOMAIN p
                     THEN <<",", "\"indexed\"", ":",
                            IF p.indexed THEN "true" ELSE "false">>
                     ELSE <<>>)
                 \o (IF "internalType" \in DOMAIN p
                     THEN <<",", "\"internalType\"", ":", "\"", "struct", " ",
                            p.internalType, "\"">>
                     ELSE <<>>)
                 \o <<"}">>],
          <<",">>)
  \o <<"]">>

\* JSON.stringify of the ABI.
stringifyAbi(nodes) ==
  <<"[">>
  \o join([i \in 1..Len(nodes) |->
             LET e == nodes[i]
             IN  <<"{", "\"type\"", ":", "\"", e.type, "\"">>
                 \o (IF "name" \in DOMAIN e
                     THEN <<",", "\"name\"", ":", "\"", e.name, "\"">> ELSE <<>>)
                 \o (IF "inputs" \in DOMAIN e
                     THEN <<",", "\"inputs\"", ":">> \o stringifyParameters(e.inputs)
                     ELSE <<>>)
                 \o (IF "outputs" \in DOMAIN e
                     THEN <<",", "\"outputs\"", ":">> \o stringifyParameters(e.outputs)
                     ELSE <<>>)
                 \o (IF "stateMutability" \in DOMAIN e
                     THEN <<",", "\"stateMutability\"", ":", "\"", e.stateMutability,
                            "\"">>
                     ELSE <<>>)
                 \o (IF "anonymous" \in DOMAIN e
                     THEN <<",", "\"anonymous\"", ":",
                            IF e.anonymous THEN "true" ELSE "false">>
                     ELSE <<>>)
                 \o <<"}">>],
          <<",">>)
  \o <<"]">>

generateAutogeneratedNotice(nodes) ==
  join(<< <<>>,
          <<"//", " ", "THIS FILE WAS AUTOGENERATED FROM THE FOLLOWING ABI JSON:">>,
          <<"/*">>,
          stringifyAbi(nodes),
          <<"*/">> >>,
       <<"\n">>)

visitAbi(nodes) ==
  join(<<generateHeader, generateDeclarations, generateInterface(nodes),
         generateAutogeneratedNotice(nodes)>>,
       <<"\n", "\n">>)

---------------------------------------------------------------------------
(* prettier.format with prettier-plugin-solidity *)

\* A token of the text with its neighbours is a space the formatter drops: one
\* that follows a space or "(", or that comes before ")" or ";".
DroppedSpace(at) ==
  /\ at.token = " "
  /\ at.before \in {" ", "("} \/ at.after \in {")", ";"}

KeptToken(at) == ~ DroppedSpace(at)

\* What the formatter returns when it does not throw: the text without the
\* spaces it drops, and a final line break.
prettierFormat(text) ==
  LET around == [i \in 1..Len(text) |->
                   [token  |-> text[i],
                    before |-> IF i > 1 THEN text[i - 1] ELSE "",
                    after  |-> IF i < Len(text) THEN text[i + 1] ELSE ""]]
      kept == SelectSeq(around, KeptToken)
  IN  [i \in 1..Len(kept) |-> kept[i].token] \o <<"\n">>

---------------------------------------------------------------------------
(* generateSolidity *)

\* The declaration tables the generator's constructor accepts beyond those the
\* collector builds: any entries under distinct signatures.
TableEntries ==
  { [signature |-> abiTupleSignature(c), declaration |-> d] :
      <<c, d>> \in
        UNION { { <<cs, [components |-> [i \in 1..Len(cs) |-> Component(cs[i])]]>> }
                \cup { <<cs, [identifier |-> n,
                              components |-> [i \in 1..Len(cs) |->
                                                Component(cs[i])]]>> :
                         n \in {"Foo", "S_0"} } :
                cs \in {CompsA, CompsB, CompsN} } }

Tables ==
  { t \in SeqUpTo(TableEntries, MaxDecls) :
      \A i, j \in 1..Len(t) : t[i].signature = t[j].signature => i = j }

Init ==
  /\ abi \in Abis
  /\ options \in Options
  /\ declarations = <<>>
  /\ identifiers = <<>>
  /\ generated = <<>>
  /\ result = <<>>
  /\ formatCalls = 0
  /\ formatThrew = FALSE
  /\ pc = "collect"

\* The generator built on a table of the caller's.
InitGenerator ==
  /\ abi \in { <<e>> : e \in MixedEntries }
  /\ options \in Options
  /\ declarations \in Tables
  /\ identifiers = <<>>
  /\ generated = <<>>
  /\ result = <<>>
  /\ formatCalls = 0
  /\ formatThrew = FALSE
  /\ pc = "construct"

\* declarations: collectDeclarations(abi)
CollectDeclarations ==
  /\ pc = "collect"
  /\ declarations' = collectDeclarations(abi)
  /\ pc' = "construct"
  /\ UNCHANGED <<abi, options, identifiers, generated, result, formatCalls,
                 formatThrew>>

\* new SolidityGenerator({...options, declarations})
Constructor ==
  /\ pc = "construct"
  /\ identifiers' = assignIdentifiers(declarations, <<>>, 0)
  /\ pc' = "dispatch"
  /\ UNCHANGED <<abi, options, declarations, generated, result, formatCalls,
                 formatThrew>>

\* const generated = dispatch({node: abi, visitor})
VisitAbi ==
  /\ pc = "dispatch"
  /\ generated' = visitAbi(abi)
  /\ pc' = "generated"
  /\ UNCHANGED <<abi, options, declarations, identifiers, result, formatCalls,
                 formatThrew>>

\* if (!options.prettier) return generated
ReturnGenerated ==
  /\ pc = "generated"
  /\ ~ options.prettier
  /\ result' = generated
  /\ pc' = "done"
  /\ UNCHANGED <<abi, options, declarations, identifiers, generated, formatCalls,
                 formatThrew>>

\* try { return prettier.format(generated, ...) }
FormatReturns ==
  /\ pc = "generated"
  /\ options.prettier
  /\ formatCalls' = formatCalls + 1
  /\ result' = prettierFormat(generated)
  /\ pc' = "done"
  /\ UNCHANGED <<abi, options, declarations, identifiers, generated, formatThrew>>

\* The formatter's exception leaving generateSolidity: no text is returned.
FormatThrows_rethrow ==
  /\ pc = "generated"
  /\ options.prettier
  /\ formatCalls' = formatCalls + 1
  /\ formatThrew' = TRUE
  /\ result' = <<>>
  /\ pc' = "done"
  /\ UNCHANGED <<abi, options, declarations, identifiers, generated>>

\* catch (error) { return generated }
FormatThrows ==
  /\ pc = "generated"
  /\ options.prettier
  /\ formatCalls' = formatCalls + 1
  /\ formatThrew' = TRUE
  /\ result' = generated
  /\ pc' = "done"
  /\ UNCHANGED <<abi, options, declarations, identifiers, generated>>

Next ==
  \/ CollectDeclarations
  \/ Constructor
  \/ VisitAbi
  \/ ReturnGenerated
  \/ FormatReturns
  \/ FormatThrows

NextGenerator ==
  \/ Constructor
  \/ VisitAbi
  \/ ReturnGenerated
  \/ FormatReturns
  \/ FormatThrows

Spec == Init /\ [][Next]_vars

SpecGenerator == InitGenerator /\ [][NextGenerator]_vars

---------------------------------------------------------------------------
(* Reading the output text back *)

\* The index of the first element of s equal to x.
FirstIndex(s, x) ==
  CHOOSE i \in 1..Len(s) : s[i] = x /\ \A j \in 1..(i - 1) : s[j] # x

RECURSIVE split(_, _)
\* The pieces of s between the occurrences of the token sep.
split(s, sep) ==
  IF ~ includes(s, sep) THEN <<s>>
  ELSE <<SubSeq(s, 1, FirstIndex(s, sep) - 1)>>
       \o split(SubSeq(s, FirstIndex(s, sep) + 1, Len(s)), sep)

NonEmpty(s) == s # <<>>

\* The words of a text: what stands between its spaces and line breaks.
Words(text) ==
  SelectSeq(split([i \in 1..Len(text) |->
                     IF text[i] = "\n" THEN " " ELSE text[i]], " "),
            NonEmpty)

HasWords(text) == Words(text) # <<>>

HasWord(text, word) == \E i \in 1..Len(Words(text)) : Words(text)[i] = <<word>>

\* The text between the first "(" and the first ")" of s.
Parenthesised(s) == SubSeq(s, FirstIndex(s, "(") + 1, FirstIndex(s, ")") - 1)

\* The parameters written in a parameter list, one text each.
ParamTexts(text) == SelectSeq(split(text, ","), HasWords)

\* generateSolidity has produced its text.
Generated == pc \in {"generated", "done"}

\* The lines between "interface <Name> {" and the closing "}" of a text.
InterfaceBodyOf(text) ==
  LET lines == split(text, "\n")
      start == FirstIndex(lines, <<"interface", " ", thisName, " ", "{">>)
      rest  == SubSeq(lines, start + 1, Len(lines))
  IN  SubSeq(rest, 1, FirstIndex(rest, <<"}">>) - 1)

\* The text between the header's four lines and the interface: the
\* declarations block.
DeclarationsBlockOf(text) ==
  LET lines == split(text, "\n")
      start == FirstIndex(lines, <<"interface", " ", thisName, " ", "{">>)
  IN  join(SubSeq(lines, 6, start - 2), <<"\n">>)

IsFunction(entry) == entry.type = "function"
IsEvent(entry) == entry.type = "event"

\* The parameters of an entry that the interface shows: a function's inputs
\* and outputs, an event's inputs.
ShownParams(entry) ==
  IF IsFunction(entry) \/ IsEvent(entry) THEN EntryParameters(entry) ELSE <<>>

InputTexts(line) == ParamTexts(Parenthesised(line))

OutputTexts(line) ==
  IF includes(line, "returns")
  THEN ParamTexts(Parenthesised(SubSeq(line, FirstIndex(line, "returns"), Len(line))))
  ELSE <<>>

\* The texts of the parameters of an entry, as its line of the interface has
\* them.
ShownTexts(entry, line) ==
  IF IsFunction(entry) THEN InputTexts(line) \o OutputTexts(line)
  ELSE IF IsEvent(entry) THEN InputTexts(line)
  ELSE <<>>

\* The type tokens every shown parameter of the ABI is written with, entry by
\* entry: the first token of the first word of its text.
ShownTypeTokens(body) ==
  [i \in 1..Len(abi) |->
     LET texts == ShownTexts(abi[i], body[i])
     IN  [k \in 1..Len(texts) |-> Words(texts[k])[1][1]]]

IsStructured(parameter) == "components" \in DOMAIN parameter

RECURSIVE SameShape(_, _)
\* The same component types in the same order, whatever the field names.
SameShape(c1, c2) ==
  /\ Len(c1) = Len(c2)
  /\ \A i \in 1..Len(c1) :
       /\ c1[i].type = c2[i].type
       /\ IsStructured(c1[i]) = IsStructured(c2[i])
       /\ IsStructured(c1[i]) => SameShape(c1[i].components, c2[i].components)

\* The table entries of a shape.
EntriesOf(components) ==
  { k \in 1..Len(declarations) :
      declarations[k].signature = abiTupleSignature(components) }

---------------------------------------------------------------------------
(* Structural deduplication *)

\* C1: when two tuple parameters of different entries have the same component
\* types in the same order, the declaration table holds exactly one entry for
\* the shape and both are written with that entry's identifier in place of
\* "tuple".
C1_SharedShapeOneDeclaration ==
  Generated =>
    LET shown == ShownTypeTokens(InterfaceBodyOf(generated))
    IN  \A i, j \in 1..Len(abi) :
          \A k \in 1..Len(ShownParams(abi[i])), l \in 1..Len(ShownParams(abi[j])) :
            LET p == ShownParams(abi[i])[k]
                q == ShownParams(abi[j])[l]
            IN  ( /\ i # j
                  /\ IsStructured(p)
                  /\ IsStructured(q)
                  /\ SameShape(p.components, q.components) )
                => /\ Cardinality(EntriesOf(p.components)) = 1
                   /\ EntriesOf(q.components) = EntriesOf(p.components)
                   /\ shown[i][k] = shown[j][l]
                   /\ \A e \in EntriesOf(p.components) :
                        shown[i][k] = identifiers[declarations[e].signature]
                   /\ shown[i][k] \notin {"tuple", "undefined"}

\* Two functions share a shape under different field names, one of them as an
\* array, and both are written with the one declaration's identifier.
C1_Witness ==
  /\ Generated
  /\ Len(abi) = 2
  /\ IsFunction(abi[1]) /\ IsFunction(abi[2])
  /\ abi[1].inputs = <<Tuple("t", <<>>, CompsA)>>
  /\ abi[2].outputs = <<Tuple("t", Fixed2, CompsA2)>>
  /\ Cardinality(EntriesOf(CompsA)) = 1
  /\ Words(InputTexts(InterfaceBodyOf(generated)[1])[1])[1] = <<"S_0">>
  /\ Words(OutputTexts(InterfaceBodyOf(generated)[2])[1])[1]
       = <<"S_0", "[", "2", "]">>

\* The same field names over the same component types in another order.
SameNamesOtherOrder(c1, c2) ==
  /\ Len(c1) = Len(c2)
  /\ \A i \in 1..Len(c1) : c1[i].name = c2[i].name
  /\ \E i \in 1..Len(c1) : c1[i].type # c2[i].type
  /\ { c1[i].type : i \in 1..Len(c1) } = { c2[i].type : i \in 1..Len(c2) }

\* C8: two tuples with the same field names and the component types in another
\* order have two entries in the declaration table and are written under two
\* different struct names.
C8_ReorderedTypesTwoDeclarations ==
  Generated =>
    LET shown == ShownTypeTokens(InterfaceBodyOf(generated))
    IN  \A i, j \in 1..Len(abi) :
          \A k \in 1..Len(ShownParams(abi[i])), l \in 1..Len(ShownParams(abi[j])) :
            LET p == ShownParams(abi[i])[k]
                q == ShownParams(abi[j])[l]
            IN  ( /\ IsStructured(p)
                  /\ IsStructured(q)
                  /\ SameNamesOtherOrder(p.components, q.components) )
                => /\ Cardinality(EntriesOf(p.components)) = 1
                   /\ Cardinality(EntriesOf(q.components)) = 1
                   /\ EntriesOf(p.components) # EntriesOf(q.components)
                   /\ shown[i][k] # shown[j][l]

\* C2: the identifiers the constructor assigns are pairwise distinct across
\* the declaration table.
C2_IdentifiersDistinct ==
  pc \in {"dispatch", "generated", "done"} =>
    \A k, l \in 1..Len(declarations) :
      k # l => identifiers[declarations[k].signature]
                 # identifiers[declarations[l].signature]

\* A shown tuple parameter, or a tuple field of a declaration, whose signature
\* has no entry in the declaration table.
UnresolvedReference ==
  \/ \E i \in 1..Len(abi) :
       \E k \in 1..Len(ShownParams(abi[i])) :
         /\ IsStructured(ShownParams(abi[i])[k])
         /\ EntriesOf(ShownParams(abi[i])[k].components) = {}
  \/ \E k \in 1..Len(declarations) :
       \E m \in 1..Len(declarations[k].declaration.components) :
         LET component == declarations[k].declaration.components[m]
         IN  /\ "signature" \in DOMAIN component
             /\ ~ HasSignature(declarations, component.signature)

\* C3: with a structured type that the table does not resolve, generation
\* fails: no text is produced or returned.
C3_UnresolvedReferenceIsFatal == UnresolvedReference => ~ Generated

---------------------------------------------------------------------------
(* Rendering rules *)

\* The types the claim gives a location qualifier: structured, any array, or
\* exactly bytes or string.
IsArrayType(type) == Len(type) >= 3 /\ type[Len(type)] = "]"

TakesLocation(parameter) ==
  \/ IsStructured(parameter)
  \/ IsArrayType(parameter.type)
  \/ parameter.type \in {<<"bytes">>, <<"string">>}

\* C5: a function input or output is written with "memory" exactly when its
\* type is structured, an array, or bytes or string; every other type has no
\* location qualifier.
C5_MemoryIffReferenceType ==
  Generated =>
    LET body == InterfaceBodyOf(generated)
    IN  \A i \in 1..Len(abi) :
          IsFunction(abi[i]) =>
            LET ins  == InputTexts(body[i])
                outs == OutputTexts(body[i])
            IN  /\ Len(ins) = Len(abi[i].inputs)
                /\ Len(outs) = Len(abi[i].outputs)
                /\ \A k \in 1..Len(abi[i].inputs) :
                     /\ HasWord(ins[k], "memory") <=> TakesLocation(abi[i].inputs[k])
                     /\ ~ HasWord(ins[k], "storage")
                     /\ ~ HasWord(ins[k], "calldata")
                /\ \A k \in 1..Len(abi[i].outputs) :
                     /\ HasWord(outs[k], "memory") <=> TakesLocation(abi[i].outputs[k])
                     /\ ~ HasWord(outs[k], "storage")
                     /\ ~ HasWord(outs[k], "calldata")

\* A bytes32 input without a qualifier beside an array input with one.
C5_Witness ==
  /\ Generated
  /\ IsFunction(abi[1])
  /\ abi[1].inputs = <<Param("h", <<"bytes32">>), Param("xs", <<"uint256">> \o Dynamic)>>
  /\ LET ins == InputTexts(InterfaceBodyOf(generated)[1])
     IN  /\ Words(ins[1]) = << <<"bytes32">>, <<"h">> >>
         /\ Words(ins[2]) = << <<"uint256", "[", "]">>, <<"memory">>, <<"xs">> >>

MutabilityKeywords == {"pure", "view", "payable", "nonpayable"}

\* C6: the mutability token follows "external" when it is view, pure or
\* payable, a nonpayable function has no mutability keyword, and the returns
\* clause is there exactly when the function has an output.
C6_MutabilityAndReturns ==
  Generated =>
    LET body == InterfaceBodyOf(generated)
    IN  \A i \in 1..Len(abi) :
          IsFunction(abi[i]) =>
            LET line == body[i]
                ext == FirstIndex(line, "external")
            IN  /\ abi[i].stateMutability \in {"view", "pure", "payable"} =>
                     /\ line[ext + 1] = " "
                     /\ line[ext + 2] = abi[i].stateMutability
                     /\ \A n \in 1..Len(line) :
                          line[n] \in MutabilityKeywords => n = ext + 2
                /\ abi[i].stateMutability = "nonpayable" =>
                     \A n \in 1..Len(line) : line[n] \notin MutabilityKeywords
                /\ includes(line, "returns") <=> Len(abi[i].outputs) > 0

\* A view function with an output: "external view returns (".
C6_Witness ==
  /\ Generated
  /\ IsFunction(abi[1])
  /\ abi[1].stateMutability = "view"
  /\ Len(abi[1].outputs) = 1
  /\ LET line == InterfaceBodyOf(generated)[1]
     IN  \E n \in 1..Len(line) :
           SubSeq(line, n, n + 6)
             = <<"external", " ", "view", " ", "returns", " ", "(">>

LocationKeywords == {"memory", "storage", "calldata"}

\* C7: an event input is written with "indexed" exactly when it is flagged
\* indexed, never with a location qualifier, and the inputs keep their order.
C7_EventIndexedNoLocation ==
  Generated =>
    LET body == InterfaceBodyOf(generated)
    IN  \A i \in 1..Len(abi) :
          IsEvent(abi[i]) =>
            LET ins == InputTexts(body[i])
            IN  /\ Len(ins) = Len(abi[i].inputs)
                /\ \A k \in 1..Len(abi[i].inputs) :
                     LET input == abi[i].inputs[k]
                         words == Words(ins[k])
                     IN  /\ (\E n \in 1..Len(words) : words[n] = <<"indexed">>)
                              <=> ("indexed" \in DOMAIN input /\ input.indexed)
                         /\ \A n \in 1..Len(words) :
                              \A w \in LocationKeywords : words[n] # <<w>>
                         /\ words[Len(words)] = <<input.name>>
                         /\ Tail(words[1]) = Tail(input.type)
                         /\ ~ IsStructured(input) => words[1] = input.type

\* An indexed string before an array that is not indexed.
C7_Witness ==
  /\ Generated
  /\ IsEvent(abi[1])
  /\ abi[1].inputs = <<EventParam(Param("s", <<"string">>), TRUE),
                       EventParam(Param("xs", <<"uint256">> \o Dynamic), FALSE)>>
  /\ LET ins == InputTexts(InterfaceBodyOf(generated)[1])
     IN  /\ Words(ins[1]) = << <<"string">>, <<"indexed">>, <<"s">> >>
         /\ Words(ins[2]) = << <<"uint256", "[", "]">>, <<"xs">> >>

---------------------------------------------------------------------------
(* The interface body and the declarations block *)

\* C9 as stated: the interface body is exactly the non-empty rendered entries,
\* in ABI order, one per line.
C9_BodyIsNonEmptyEntries ==
  Generated =>
    InterfaceBodyOf(generated)
      = SelectSeq([i \in 1..Len(abi) |-> dispatch(abi[i])], NonEmpty)

\* C9: the interface body has one line per ABI entry, in ABI order: the empty
\* line for a constructor entry and the rendered entry, which is not empty and
\* begins with the entry's kind, for every other.
C9_BodyLinePerEntry ==
  Generated =>
    LET body == InterfaceBodyOf(generated)
    IN  /\ Len(body) = Len(abi)
        /\ \A i \in 1..Len(abi) :
             /\ body[i] = dispatch(abi[i])
             /\ abi[i].type = "constructor" => body[i] = <<>>
             /\ abi[i].type # "constructor" =>
                  /\ body[i] # <<>>
                  /\ body[i][1] = abi[i].type
                  /\ "name" \in DOMAIN abi[i] => body[i][3] = abi[i].name

\* A constructor before an event: an empty line, then the event.
C9_Witness ==
  /\ Generated
  /\ Len(abi) = 2
  /\ abi[1].type = "constructor"
  /\ IsEvent(abi[2])
  /\ LET body == InterfaceBodyOf(generated)
     IN  /\ Len(body) = 2
         /\ body[1] = <<>>
         /\ body[2][1] = "event"

\* The text between the first "{" and the first "}" of s.
Braced(s) == SubSeq(s, FirstIndex(s, "{") + 1, FirstIndex(s, "}") - 1)

\* C10: the declarations block has one struct per table entry, in table order,
\* named by the entry's identifier, with the entry's fields in their order; a
\* tuple field has the referenced declaration's identifier in place of
\* "tuple" and keeps its array suffix, as a parameter of that shape has; an
\* empty table gives an empty block.
C10_DeclarationsBlock ==
  Generated =>
    LET block == DeclarationsBlockOf(generated)
        pieces == split(block, "struct")
        shown == ShownTypeTokens(InterfaceBodyOf(generated))
    IN  /\ Len(declarations) = 0 => block = <<>>
        /\ pieces[1] = <<>>
        /\ Len(pieces) = Len(declarations) + 1
        /\ \A k \in 1..Len(declarations) :
             LET piece == pieces[k + 1]
                 components == declarations[k].declaration.components
                 fields == SelectSeq(split(Braced(piece), ";"), HasWords)
             IN  /\ Words(SubSeq(piece, 1, FirstIndex(piece, "{") - 1))
                      = << <<identifiers[declarations[k].signature]>> >>
                 /\ Len(fields) = Len(components)
                 /\ \A m \in 1..Len(components) :
                      IF "signature" \in DOMAIN components[m]
                      THEN /\ Words(fields[m])
                                = << <<identifiers[components[m].signature]>>
                                       \o Tail(components[m].type),
                                     <<components[m].name>> >>
                           /\ \A i \in 1..Len(abi) :
                                \A n \in 1..Len(ShownParams(abi[i])) :
                                  ( /\ IsStructured(ShownParams(abi[i])[n])
                                    /\ abiTupleSignature(ShownParams(abi[i])[n].components)
                                         = components[m].signature )
                                  => shown[i][n] = Words(fields[m])[1][1]
                      ELSE Words(fields[m])
                             = <<components[m].type, <<components[m].name>> >>

\* A nested tuple: the outer struct's field is written with the inner
\* struct's identifier, which the function's other parameter also has.
C10_Witness ==
  /\ Generated
  /\ Len(abi) = 1
  /\ IsFunction(abi[1])
  /\ abi[1].inputs = <<Tuple("t", <<>>, CompsA), Tuple("ns", Dynamic, CompsN)>>
  /\ Len(declarations) = 2
  /\ LET pieces == split(DeclarationsBlockOf(generated), "struct")
     IN  /\ Len(pieces) = 3
         /\ Words(Braced(pieces[2]))
              = << <<"uint256">>, <<"x", ";">>, <<"address">>, <<"y", ";">> >>
         /\ Words(Braced(pieces[3]))
              = << <<"S_0">>, <<"inner", ";">>, <<"bool">>, <<"z", ";">> >>

---------------------------------------------------------------------------
(* The formatting pass *)

\* C4: the formatting pass never makes generateSolidity fail: without the
\* option the formatter is not called and the generated text is returned, and
\* when the formatter throws the generated text is returned.
C4_FormattingNeverFails ==
  pc = "done" =>
    /\ result # <<>>
    /\ ~ options.prettier => formatCalls = 0 /\ result = generated
    /\ (options.prettier /\ formatThrew) => result = generated
    /\ options.prettier => formatCalls = 1

\* The formatter was asked for and threw, and the generated text came back.
C4_Witness ==
  /\ pc = "done"
  /\ options.prettier
  /\ formatThrew
  /\ formatCalls = 1
  /\ result = generated
  /\ result # prettierFormat(generated)

====
